---- MODULE Spec2Model ----
(***************************************************************************)
(* A model of owned-ref-cell (src/src/lib.rs): one OwnedRefCell<T>, its    *)
(* shared BorrowState, and the owned guards OwnedRef<T> / OwnedRefMut<T>   *)
(* it hands out.  In Spec the cell outlives its guards (the caller         *)
(* contract documented for the raw views held by the guards); SpecCellDrop *)
(* adds the destruction of the cell while guards are held.                 *)
(* SpecFuzz is the fuzz target (src/fuzz/fuzz_targets) and SpecBench the   *)
(* nested benchmarks (src/benches/bench.rs), both driving the same code.   *)
(*                                                                         *)
(* reading_count is a usize in the source.  It is modelled as a            *)
(* mathematical integer: a negative value stands for the usize underflow   *)
(* of `reading_count -= 1` at 0 (a panic with overflow checks, a wrap to   *)
(* usize::MAX without).                                                    *)
(***************************************************************************)
EXTENDS Integers, FiniteSets

\* ------------------------------------------------------------- bounds
\* Guards issued over one behaviour (successful acquisitions).
MaxGuards == 4
\* The protected value ranges over 0..MaxValue.
MaxValue == 2

Values == 0 .. MaxValue

\* Where an owned guard currently lives: the binding it was returned into,
\* a parameter of a function it was passed to, or a collection.
Places == {"local", "callee", "vec"}

VARIABLES
    state,      \* BorrowState behind Rc<RefCell<..>>: [is_writing, reading_count]
    value,      \* the cell's UnsafeCell<T> payload
    guards,     \* the live guards: records [id, kind, place]
    acquired,   \* history: successful acquisitions so far, [read, write]
    released,   \* history: Drop bodies run so far, [read, write]
    written,    \* history: the last store into the payload, [by, val]
    last,       \* the last operation and what it returned
    observed,   \* history: the values of the cell read through read guards while any is live
    cell_alive, \* whether the OwnedRefCell, and the payload stored inline in it, exists
    strong,     \* strong count of the Rc<RefCell<BorrowState>>
    fuzz,       \* the fuzz target's position: [pc, n], n input bytes processed
    bench       \* the nested benchmarks' cells and position

vars == <<state, value, guards, acquired, released, written, last,
          observed, cell_alive, strong, fuzz, bench>>

\* What the harnesses add to the cell's state.
harness == <<fuzz, bench>>

\* ------------------------------------------------------------- BorrowState

\* struct BorrowState { is_writing: bool, reading_count: usize }
BorrowState == [is_writing : BOOLEAN, reading_count : Int]

\* OwnedRefCell::new: the initial BorrowState.
new_state == [is_writing |-> FALSE, reading_count |-> 0]

\* The guards of one kind that are live.
Live(kind) == {g \in guards : g.kind = kind}

\* ------------------------------------------------------------- acquisition

\* Faulty variant: the reader count is raised before the writer check.
try_borrow_counts_first(s) ==
    IF s.is_writing
    THEN [some |-> FALSE, state |-> [s EXCEPT !.reading_count = @ + 1]]
    ELSE [some |-> TRUE, state |-> [s EXCEPT !.reading_count = @ + 1]]

\* Faulty variant: the writer check is missing.
try_borrow_unchecked(s) ==
    [some |-> TRUE, state |-> [s EXCEPT !.reading_count = @ + 1]]

\* Faulty variant: readers exclude each other, as writers do.
try_borrow_exclusive(s) ==
    IF s.is_writing \/ s.reading_count > 0
    THEN [some |-> FALSE, state |-> s]
    ELSE [some |-> TRUE, state |-> [s EXCEPT !.reading_count = @ + 1]]

\* OwnedRefCell::try_borrow on BorrowState s: whether a guard is returned,
\* and the BorrowState it leaves.
OwnedRefCell_try_borrow(s) ==
    IF s.is_writing
    THEN [some |-> FALSE, state |-> s]
    ELSE [some |-> TRUE, state |-> [s EXCEPT !.reading_count = @ + 1]]

\* Faulty variant: the reader count is not consulted.
try_borrow_mut_ignores_readers(s) ==
    IF s.is_writing
    THEN [some |-> FALSE, state |-> s]
    ELSE [some |-> TRUE, state |-> [s EXCEPT !.is_writing = TRUE]]

\* Faulty variant: `&&` in place of `||`.
try_borrow_mut_and(s) ==
    IF s.is_writing /\ s.reading_count > 0
    THEN [some |-> FALSE, state |-> s]
    ELSE [some |-> TRUE, state |-> [s EXCEPT !.is_writing = TRUE]]

\* OwnedRefCell::try_borrow_mut on BorrowState s.
OwnedRefCell_try_borrow_mut(s) ==
    IF s.is_writing \/ s.reading_count > 0
    THEN [some |-> FALSE, state |-> s]
    ELSE [some |-> TRUE, state |-> [s EXCEPT !.is_writing = TRUE]]

\* Faulty variant: borrow goes through try_borrow_mut.
borrow_via_try_borrow_mut(s) == OwnedRefCell_try_borrow_mut(s)

\* OwnedRefCell::borrow: self.try_borrow(), then .expect(..) on the result.
OwnedRefCell_borrow(s) == OwnedRefCell_try_borrow(s)

\* OwnedRefCell::borrow_mut: self.try_borrow_mut(), then .expect(..).
OwnedRefCell_borrow_mut(s) == OwnedRefCell_try_borrow_mut(s)

\* Faulty variant: the guard keeps a handle that does not own the BorrowState.
Rc_clone_not_counted(n) == n

\* Rc::clone(&self.state) in try_borrow / try_borrow_mut, on strong count n.
Rc_clone(n) == n + 1

\* The `state: Rc<..>` field of a cell or guard is dropped, on strong count n.
Rc_drop(n) == n - 1

\* ------------------------------------------------------------- release

\* Faulty variant: the count is lowered twice.
OwnedRef_drop_twice(s) == [s EXCEPT !.reading_count = @ - 2]

\* Drop for OwnedRef, on BorrowState s.
OwnedRef_drop(s) == [s EXCEPT !.reading_count = @ - 1]

\* Faulty variant: the flag is left set.
OwnedRefMut_drop_keeps_flag(s) == s

\* Drop for OwnedRefMut, on BorrowState s.
OwnedRefMut_drop(s) == [s EXCEPT !.is_writing = FALSE]

\* ------------------------------------------------------------- access, moves

\* Faulty variant: the guard holds a copy of the payload, so the store is lost.
deref_mut_into_copy(cur, v) == cur

\* DerefMut for OwnedRefMut, `*guard = v`: the payload after the store,
\* cur being the payload before it.
OwnedRefMut_deref_mut(cur, v) == v

\* Deref for OwnedRef / OwnedRefMut: the payload the guard's view reads.
OwnedRef_deref(g) == value

\* Faulty variant: moving a guard runs the destructor of the moved-from guard.
move_runs_drop(s, g) ==
    IF g.kind = "ref" THEN OwnedRef_drop(s) ELSE OwnedRefMut_drop(s)

\* A guard is moved (into a function, out of it, into a Vec): OwnedRef and
\* OwnedRefMut are plain structs, neither Copy nor Clone, so a move runs no
\* code of the crate and BorrowState s stays as it is.
move_guard(s, g) == s

\* ------------------------------------------------------------- the machine

\* No harness is running: the cell is driven by arbitrary callers.
FuzzOff == [pc |-> "off", n |-> 0]

BenchOff == [fn |-> "off"]

\* OwnedRefCell::new(v), v any value.
Init ==
    /\ state = new_state
    /\ value \in Values
    /\ guards = {}
    /\ acquired = [read |-> 0, write |-> 0]
    /\ released = [read |-> 0, write |-> 0]
    /\ written = [by |-> 0, val |-> value]
    /\ last = [op |-> "new", res |-> "Cell", kind |-> "none", id |-> 0, seen |-> {}]
    /\ observed = {}
    /\ cell_alive = TRUE
    /\ strong = 1
    /\ fuzz = FuzzOff
    /\ bench = BenchOff

Issued == acquired.read + acquired.write

\* An acquisition call `op` whose outcome on the BorrowState is r; a refusal
\* is returned as None (try_*) or raised as a panic (expect), per `refusal`.
Acquire(op, kind, r, refusal) ==
    /\ cell_alive
    /\ r.some => Issued < MaxGuards
    /\ state' = r.state
    /\ guards' = IF r.some
                 THEN guards \cup {[id |-> Issued + 1, kind |-> kind, place |-> "local"]}
                 ELSE guards
    /\ acquired' = IF ~r.some THEN acquired
                   ELSE IF kind = "ref" THEN [acquired EXCEPT !.read = @ + 1]
                   ELSE [acquired EXCEPT !.write = @ + 1]
    /\ last' = [op |-> op, res |-> IF r.some THEN "Some" ELSE refusal,
                kind |-> kind, id |-> IF r.some THEN Issued + 1 ELSE 0, seen |-> {}]
    /\ strong' = IF r.some THEN Rc_clone(strong) ELSE strong
    /\ UNCHANGED <<value, released, written, observed, cell_alive>>
    /\ UNCHANGED harness

try_borrow == Acquire("try_borrow", "ref", OwnedRefCell_try_borrow(state), "None")

try_borrow_mut == Acquire("try_borrow_mut", "mut", OwnedRefCell_try_borrow_mut(state), "None")

borrow == Acquire("borrow", "ref", OwnedRefCell_borrow(state), "Panic")

borrow_mut == Acquire("borrow_mut", "mut", OwnedRefCell_borrow_mut(state), "Panic")

\* A live read guard is dropped.
DropOwnedRef(g) ==
    /\ g \in Live("ref")
    /\ state' = OwnedRef_drop(state)
    /\ guards' = guards \ {g}
    /\ released' = [released EXCEPT !.read = @ + 1]
    /\ last' = [op |-> "drop", res |-> "Unit", kind |-> "ref", id |-> g.id, seen |-> {}]
    /\ observed' = IF Live("ref") = {g} THEN {} ELSE observed
    /\ strong' = Rc_drop(strong)
    /\ UNCHANGED <<value, acquired, written, cell_alive>>
    /\ UNCHANGED harness

\* A live write guard is dropped.
DropOwnedRefMut(g) ==
    /\ g \in Live("mut")
    /\ state' = OwnedRefMut_drop(state)
    /\ guards' = guards \ {g}
    /\ released' = [released EXCEPT !.write = @ + 1]
    /\ last' = [op |-> "drop", res |-> "Unit", kind |-> "mut", id |-> g.id, seen |-> {}]
    /\ strong' = Rc_drop(strong)
    /\ UNCHANGED <<value, acquired, written, observed, cell_alive>>
    /\ UNCHANGED harness

\* *g is read through a live guard of either kind.  The guard's view is a
\* raw pointer into the cell: once the cell is gone the read is undefined
\* behaviour, here any value.
Deref(g) ==
    /\ g \in guards
    /\ \E v \in (IF cell_alive THEN {OwnedRef_deref(g)} ELSE Values) :
          /\ last' = [op |-> "deref", res |-> IF cell_alive THEN "Ref" ELSE "Dangling",
                      kind |-> g.kind, id |-> g.id, seen |-> {v}]
          /\ observed' = IF g.kind = "ref" /\ cell_alive
                         THEN observed \cup {v} ELSE observed
    /\ UNCHANGED <<state, value, guards, acquired, released, written, cell_alive, strong>>
    /\ UNCHANGED harness

\* *g = v through a live write guard.  Once the cell is gone the store is
\* undefined behaviour: the memory the payload was in ends with any value.
DerefMut(g, v) ==
    /\ g \in Live("mut")
    /\ value' \in (IF cell_alive THEN {OwnedRefMut_deref_mut(value, v)} ELSE Values)
    /\ written' = [by |-> g.id, val |-> v]
    /\ last' = [op |-> "deref_mut", res |-> IF cell_alive THEN "RefMut" ELSE "Dangling",
                kind |-> "mut", id |-> g.id, seen |-> {}]
    /\ UNCHANGED <<state, guards, acquired, released, observed, cell_alive, strong>>
    /\ UNCHANGED harness

\* A live guard is moved to another place.
Move(g, p) ==
    /\ g \in guards
    /\ p # g.place
    /\ state' = move_guard(state, g)
    /\ guards' = (guards \ {g}) \cup {[g EXCEPT !.place = p]}
    /\ last' = [op |-> "move", res |-> "Unit", kind |-> g.kind, id |-> g.id, seen |-> {}]
    /\ UNCHANGED <<value, acquired, released, written, observed, cell_alive, strong>>
    /\ UNCHANGED harness

Next ==
    \/ try_borrow
    \/ try_borrow_mut
    \/ borrow
    \/ borrow_mut
    \/ \E g \in guards : DropOwnedRef(g)
    \/ \E g \in guards : DropOwnedRefMut(g)
    \/ \E g \in guards : Deref(g)
    \/ \E g \in guards, v \in Values : DerefMut(g, v)
    \/ \E g \in guards, p \in Places : Move(g, p)

Spec == Init /\ [][Next]_vars

\* The OwnedRefCell is dropped: its payload goes with it and its handle on
\* the BorrowState is released.  Nothing ties a guard to the cell's
\* lifetime, so guards may be live.
DropCell ==
    /\ cell_alive
    /\ cell_alive' = FALSE
    /\ strong' = Rc_drop(strong)
    /\ last' = [op |-> "drop_cell", res |-> "Unit", kind |-> "none", id |-> 0, seen |-> {}]
    /\ UNCHANGED <<state, value, guards, acquired, released, written, observed>>
    /\ UNCHANGED harness

NextCellDrop ==
    \/ Next
    \/ DropCell

SpecCellDrop == Init /\ [][NextCellDrop]_vars

\* ------------------------------------------------------------- fuzz target

\* Input bytes the fuzz target processes in one run.
MaxInput == 6

\* data: &[u8]
Bytes == 0 .. 255

\* Vec::pop: the element pushed last (guards are pushed as they are issued).
Vec_pop(gs) == CHOOSE g \in gs : \A h \in gs : h.id <= g.id

\* The first element of a Vec, the one its drop destroys first.
Vec_first(gs) == CHOOSE g \in gs : \A h \in gs : g.id <= h.id

\* let cell = OwnedRefCell::new(0); both Vecs empty.
FuzzInit ==
    /\ state = new_state
    /\ value = 0
    /\ guards = {}
    /\ acquired = [read |-> 0, write |-> 0]
    /\ released = [read |-> 0, write |-> 0]
    /\ written = [by |-> 0, val |-> 0]
    /\ last = [op |-> "new", res |-> "Cell", kind |-> "none", id |-> 0, seen |-> {}]
    /\ observed = {}
    /\ cell_alive = TRUE
    /\ strong = 1
    /\ fuzz = [pc |-> "loop", n |-> 0]
    /\ bench = BenchOff

\* byte % 3 == 0: try_borrow, and the guard, if any, is pushed onto
\* immutable_borrows.
FuzzTryBorrow ==
    LET r == OwnedRefCell_try_borrow(state) IN
    /\ state' = r.state
    /\ guards' = IF r.some
                 THEN guards \cup {[id |-> Issued + 1, kind |-> "ref", place |-> "vec"]}
                 ELSE guards
    /\ acquired' = IF r.some THEN [acquired EXCEPT !.read = @ + 1] ELSE acquired
    /\ strong' = IF r.some THEN Rc_clone(strong) ELSE strong
    /\ last' = [op |-> "try_borrow", res |-> IF r.some THEN "Some" ELSE "None",
                kind |-> "ref", id |-> IF r.some THEN Issued + 1 ELSE 0, seen |-> {}]
    /\ UNCHANGED <<value, released, written, observed, cell_alive>>

\* byte % 3 == 1: try_borrow_mut, and with a guard `*borrow_mut += 1` (an
\* i32, far from its limit within MaxInput bytes), then the guard is pushed
\* onto mutable_borrows.
FuzzTryBorrowMut ==
    LET r == OwnedRefCell_try_borrow_mut(state) IN
    /\ state' = r.state
    /\ guards' = IF r.some
                 THEN guards \cup {[id |-> Issued + 1, kind |-> "mut", place |-> "vec"]}
                 ELSE guards
    /\ acquired' = IF r.some THEN [acquired EXCEPT !.write = @ + 1] ELSE acquired
    /\ strong' = IF r.some THEN Rc_clone(strong) ELSE strong
    /\ value' = IF r.some THEN OwnedRefMut_deref_mut(value, value + 1) ELSE value
    /\ written' = IF r.some THEN [by |-> Issued + 1, val |-> value + 1] ELSE written
    /\ last' = [op |-> "try_borrow_mut", res |-> IF r.some THEN "Some" ELSE "None",
                kind |-> "mut", id |-> IF r.some THEN Issued + 1 ELSE 0, seen |-> {}]
    /\ UNCHANGED <<released, observed, cell_alive>>

\* Any other byte: immutable_borrows.pop() if it is not empty, then
\* mutable_borrows.pop() if it is not empty; a popped guard is dropped.
FuzzPop ==
    LET popR == IF Live("ref") = {} THEN {} ELSE {Vec_pop(Live("ref"))}
        popW == IF Live("mut") = {} THEN {} ELSE {Vec_pop(Live("mut"))}
        s1 == IF popR = {} THEN state ELSE OwnedRef_drop(state)
        s2 == IF popW = {} THEN s1 ELSE OwnedRefMut_drop(s1)
        n1 == IF popR = {} THEN strong ELSE Rc_drop(strong)
        n2 == IF popW = {} THEN n1 ELSE Rc_drop(n1)
    IN
    /\ state' = s2
    /\ strong' = n2
    /\ guards' = guards \ (popR \cup popW)
    /\ released' = [read |-> released.read + Cardinality(popR),
                    write |-> released.write + Cardinality(popW)]
    /\ observed' = IF Live("ref") = popR THEN {} ELSE observed
    /\ last' = [op |-> "pop", res |-> "Unit", kind |-> "none", id |-> 0, seen |-> {}]
    /\ UNCHANGED <<value, acquired, written, cell_alive>>

\* One iteration of `for &byte in data.iter()`.
FuzzByte(byte) ==
    /\ fuzz.pc = "loop"
    /\ fuzz.n < MaxInput
    /\ fuzz' = [fuzz EXCEPT !.n = @ + 1]
    /\ bench' = bench
    /\ IF byte % 3 = 0 THEN FuzzTryBorrow
       ELSE IF byte % 3 = 1 THEN FuzzTryBorrowMut
       ELSE FuzzPop

\* The input is exhausted: the locals go out of scope in reverse order of
\* declaration, mutable_borrows first.
FuzzEndOfInput ==
    /\ fuzz.pc = "loop"
    /\ fuzz' = [fuzz EXCEPT !.pc = "drop_mutable_borrows"]
    /\ last' = [op |-> "end", res |-> "Unit", kind |-> "none", id |-> 0, seen |-> {}]
    /\ UNCHANGED <<state, value, guards, acquired, released, written,
                   observed, cell_alive, strong, bench>>

\* mutable_borrows is dropped, element by element.
FuzzDropMutableBorrows ==
    /\ fuzz.pc = "drop_mutable_borrows"
    /\ IF Live("mut") # {}
       THEN DropOwnedRefMut(Vec_first(Live("mut")))
       ELSE /\ fuzz' = [fuzz EXCEPT !.pc = "drop_immutable_borrows"]
            /\ last' = [op |-> "end", res |-> "Unit", kind |-> "mut", id |-> 0, seen |-> {}]
            /\ UNCHANGED <<state, value, guards, acquired, released, written,
                           observed, cell_alive, strong, bench>>

\* immutable_borrows is dropped, element by element.
FuzzDropImmutableBorrows ==
    /\ fuzz.pc = "drop_immutable_borrows"
    /\ IF Live("ref") # {}
       THEN DropOwnedRef(Vec_first(Live("ref")))
       ELSE /\ fuzz' = [fuzz EXCEPT !.pc = "drop_cell"]
            /\ last' = [op |-> "end", res |-> "Unit", kind |-> "ref", id |-> 0, seen |-> {}]
            /\ UNCHANGED <<state, value, guards, acquired, released, written,
                           observed, cell_alive, strong, bench>>

\* cell is dropped, last.
FuzzDropCell ==
    /\ fuzz.pc = "drop_cell"
    /\ DropCell

FuzzNext ==
    \/ \E byte \in Bytes : FuzzByte(byte)
    \/ FuzzEndOfInput
    \/ FuzzDropMutableBorrows
    \/ FuzzDropImmutableBorrows
    \/ FuzzDropCell

SpecFuzz == FuzzInit /\ [][FuzzNext]_vars

\* ------------------------------------------------------------- nested benchmarks

\* for _ in 0..1000
BenchIters == 1000

\* Times b.iter runs the benchmark closure.
MaxRuns == 2

\* The benchmarks on OwnedRefCell::new(OwnedRefCell::new(42)).
NestedBenches ==
    {"bench_borrow_mut_borrow", "bench_borrow_mut_borrow_mut", "bench_borrow_borrow_mut"}

\* Faulty variant: every cell is handed the same BorrowState.
Rc_new_shared(k) == 1

\* Rc::new(RefCell::new(BorrowState {..})) in OwnedRefCell::new: the k-th
\* cell constructed gets an allocation of its own, the k-th.
Rc_new(k) == k

\* let outer_borrow = cell.borrow_mut() / cell.borrow(), on the outer cell's
\* BorrowState s.
BenchOuterCall(fn, s) ==
    IF fn = "bench_borrow_borrow_mut" THEN OwnedRefCell_borrow(s)
    ELSE OwnedRefCell_borrow_mut(s)

BenchOuterKind(fn) == IF fn = "bench_borrow_borrow_mut" THEN "ref" ELSE "mut"

\* outer_borrow.borrow() / outer_borrow.try_borrow_mut(): the guard has no
\* such method, so the call derefs to the payload, the inner cell, whose
\* BorrowState is s.
BenchInnerCall(fn, s) ==
    IF fn = "bench_borrow_mut_borrow" THEN OwnedRefCell_borrow(s)
    ELSE OwnedRefCell_try_borrow_mut(s)

BenchInnerKind(fn) == IF fn = "bench_borrow_mut_borrow" THEN "ref" ELSE "mut"

\* A guard of the given kind is dropped, on BorrowState s.
GuardDrop(kind, s) == IF kind = "ref" THEN OwnedRef_drop(s) ELSE OwnedRefMut_drop(s)

\* The single-cell variables play no part in the benchmarks.
BenchFrame ==
    UNCHANGED <<state, value, guards, acquired, released, written, last,
                observed, cell_alive, strong, fuzz>>

\* let cell = OwnedRefCell::new(OwnedRefCell::new(42)): the inner cell is
\* constructed first.
BenchInit ==
    /\ state = new_state
    /\ value = 0
    /\ guards = {}
    /\ acquired = [read |-> 0, write |-> 0]
    /\ released = [read |-> 0, write |-> 0]
    /\ written = [by |-> 0, val |-> 0]
    /\ last = [op |-> "new", res |-> "Cell", kind |-> "none", id |-> 0, seen |-> {}]
    /\ observed = {}
    /\ cell_alive = TRUE
    /\ strong = 1
    /\ fuzz = FuzzOff
    /\ \E fn \in NestedBenches :
          bench = [fn |-> fn, pc |-> "iter", i |-> 0, runs |-> 0,
                   inner_rc |-> Rc_new(1), outer_rc |-> Rc_new(2),
                   heap |-> [a \in {1, 2} |-> new_state],
                   outer_guard |-> "none", inner_guard |-> "none",
                   inner_res |-> "none"]

\* The closure starts: the outer guard is taken from the outer cell.
BenchOuterBorrow ==
    /\ bench.pc = "iter"
    /\ bench.runs < MaxRuns
    /\ LET r == BenchOuterCall(bench.fn, bench.heap[bench.outer_rc]) IN
       bench' = IF r.some
                THEN [bench EXCEPT !.heap[bench.outer_rc] = r.state,
                                   !.outer_guard = BenchOuterKind(bench.fn),
                                   !.i = 0, !.pc = "loop"]
                ELSE [bench EXCEPT !.pc = "panicked"]
    /\ BenchFrame

\* The loop body: the inner attempt, made through the outer guard.
BenchInnerAttempt ==
    /\ bench.pc = "loop"
    /\ bench.i < BenchIters
    /\ bench.outer_guard # "none"
    /\ LET r == BenchInnerCall(bench.fn, bench.heap[bench.inner_rc])
           panics == ~r.some /\ bench.fn = "bench_borrow_mut_borrow"
       IN bench' = [bench EXCEPT
                       !.heap[bench.inner_rc] = r.state,
                       !.inner_guard = IF r.some THEN BenchInnerKind(bench.fn) ELSE "none",
                       !.inner_res = IF r.some THEN "Some"
                                     ELSE IF panics THEN "Panic" ELSE "None",
                       !.pc = IF panics THEN "panicked" ELSE "inner"]
    /\ BenchFrame

\* The end of the loop body: _inner_borrow goes out of scope.
BenchInnerScopeEnd ==
    /\ bench.pc = "inner"
    /\ bench' = [bench EXCEPT
                    !.heap[bench.inner_rc] =
                        IF bench.inner_guard = "none" THEN @
                        ELSE GuardDrop(bench.inner_guard, @),
                    !.inner_guard = "none",
                    !.i = @ + 1,
                    !.pc = "loop"]
    /\ BenchFrame

\* The end of the closure: outer_borrow goes out of scope.
BenchClosureEnd ==
    /\ bench.pc = "loop"
    /\ bench.i = BenchIters
    /\ bench' = [bench EXCEPT
                    !.heap[bench.outer_rc] = GuardDrop(bench.outer_guard, @),
                    !.outer_guard = "none",
                    !.runs = @ + 1,
                    !.pc = "iter"]
    /\ BenchFrame

BenchNext ==
    \/ BenchOuterBorrow
    \/ BenchInnerAttempt
    \/ BenchInnerScopeEnd
    \/ BenchClosureEnd

SpecBench == BenchInit /\ [][BenchNext]_vars

\* ------------------------------------------------------------- properties

GuardIds(gs) == {g.id : g \in gs}

\* A step made by one of the calls named in ops (every operation records
\* itself in last).
Called(ops) == last'.op \in ops

\* C1: in every reachable state the BorrowState satisfies
\* ~(is_writing /\ reading_count > 0), and reading_count is never below 0.
C1_BorrowStateInvariant ==
    /\ ~(state.is_writing /\ state.reading_count > 0)
    /\ state.reading_count >= 0

\* A writer holds the cell after two readers and an earlier writer released.
C1_Witness ==
    /\ state.is_writing
    /\ released.read >= 2
    /\ released.write >= 1

\* C2: while a write guard is live, every try_borrow and every
\* try_borrow_mut on the cell returns None (and hands out no guard).
C2_MutualExclusion ==
    [][(Live("mut") # {} /\ Called({"try_borrow", "try_borrow_mut"}))
          => (last'.res = "None" /\ guards' = guards)]_vars

\* try_borrow was refused while a write guard that has been written through
\* and moved away is still live.
C2_Witness ==
    /\ last.op = "try_borrow"
    /\ last.res = "None"
    /\ \E g \in Live("mut") : g.place # "local" /\ written.by = g.id

\* C3: try_borrow_mut returns a guard iff is_writing is false and
\* reading_count is 0 (no guard of either kind is live); on success
\* is_writing becomes true and reading_count stays 0; it returns None while
\* read guards are live.
C3_TryBorrowMut ==
    [][Called({"try_borrow_mut"}) =>
          /\ (last'.res = "Some") <=> (~state.is_writing /\ state.reading_count = 0)
          /\ (last'.res = "Some") <=> (guards = {})
          /\ last'.res \in {"Some", "None"}
          /\ (last'.res = "Some") =>
                /\ state'.is_writing
                /\ state'.reading_count = 0
                /\ Cardinality(Live("mut")') = 1
                /\ Live("ref")' = {}
          /\ (Live("ref") # {}) => (last'.res = "None")]_vars

\* try_borrow_mut was refused because of live read guards, after an earlier
\* write guard had been handed out and released.
C3_Witness ==
    /\ last.op = "try_borrow_mut"
    /\ last.res = "None"
    /\ Cardinality(Live("ref")) >= 2
    /\ released.write >= 1

\* C4: try_borrow returns a guard iff is_writing is false, however many
\* read guards are live; on success reading_count grows by exactly 1 and
\* is_writing stays false.
C4_TryBorrow ==
    [][Called({"try_borrow"}) =>
          /\ (last'.res = "Some") <=> ~state.is_writing
          /\ (last'.res = "Some") <=> (Live("mut") = {})
          /\ last'.res \in {"Some", "None"}
          /\ (last'.res = "Some") =>
                /\ state'.reading_count = state.reading_count + 1
                /\ ~state'.is_writing
                /\ Cardinality(Live("ref")') = Cardinality(Live("ref")) + 1]_vars

\* try_borrow succeeded with two read guards already live.
C4_Witness ==
    /\ last.op = "try_borrow"
    /\ last.res = "Some"
    /\ state.reading_count >= 3
    /\ Cardinality(Live("ref")) >= 3

\* C5: a failed acquisition (None from try_borrow / try_borrow_mut, the
\* panic of borrow / borrow_mut) leaves is_writing, reading_count, the
\* protected value and the live guards as they were.
C5_FailureChangesNothing ==
    [][(Called({"try_borrow", "try_borrow_mut", "borrow", "borrow_mut"})
            /\ last'.res \in {"None", "Panic"})
          => /\ state' = state
             /\ value' = value
             /\ guards' = guards
             /\ acquired' = acquired
             /\ released' = released]_vars

\* borrow_mut panicked with two read guards live.
C5_Witness ==
    /\ last.op = "borrow_mut"
    /\ last.res = "Panic"
    /\ Cardinality(Live("ref")) = 2
    /\ state.reading_count = 2

\* C6: borrow panics exactly where try_borrow returns None (a write guard is
\* live), borrow_mut panics exactly where try_borrow_mut returns None (any
\* guard is live); otherwise each returns a guard with the state change of
\* its try_ counterpart.
C6_BorrowLikeTry ==
    [][/\ Called({"borrow"}) =>
             /\ last'.res \in {"Some", "Panic"}
             /\ (last'.res = "Panic") <=> (Live("mut") # {})
             /\ (last'.res = "Panic") <=> ~OwnedRefCell_try_borrow(state).some
             /\ state' = OwnedRefCell_try_borrow(state).state
             /\ (last'.res = "Some") =>
                   \E g \in Live("ref")' : g.id \notin GuardIds(guards) /\ guards' = guards \cup {g}
       /\ Called({"borrow_mut"}) =>
             /\ last'.res \in {"Some", "Panic"}
             /\ (last'.res = "Panic") <=> (guards # {})
             /\ (last'.res = "Panic") <=> ~OwnedRefCell_try_borrow_mut(state).some
             /\ state' = OwnedRefCell_try_borrow_mut(state).state
             /\ (last'.res = "Some") =>
                   \E g \in Live("mut")' : g.id \notin GuardIds(guards) /\ guards' = guards \cup {g}
       /\ Called({"try_borrow", "try_borrow_mut"}) => last'.res \in {"Some", "None"}]_vars

\* borrow_mut panicked while only a read guard is live.
C6_Witness ==
    /\ last.op = "borrow_mut"
    /\ last.res = "Panic"
    /\ Cardinality(Live("ref")) = 1
    /\ Live("mut") = {}

\* C7: once every outstanding guard has been dropped the cell is idle again
\* and the next try_borrow_mut succeeds; while a read guard is still live
\* try_borrow_mut keeps returning None.
C7_ReleaseRestores ==
    /\ [](guards = {} => state = new_state)
    /\ [][Called({"try_borrow_mut"}) =>
             /\ (guards = {}) => (last'.res = "Some")
             /\ (Live("ref") # {}) => (last'.res = "None" /\ state' = state)]_vars

\* try_borrow_mut succeeded after two read guards and a write guard had been
\* released.
C7_Witness ==
    /\ last.op = "try_borrow_mut"
    /\ last.res = "Some"
    /\ released.read >= 2
    /\ released.write >= 1

\* C8: a guard reverts the BorrowState exactly once, at its drop: releases
\* never outnumber acquisitions, reading_count is the acquisitions not yet
\* released, it falls only by 1 and only as one read guard is dropped, and
\* is_writing is cleared only as the write guard is dropped.
C8_ExactlyOnceRelease ==
    /\ [](/\ released.read <= acquired.read
          /\ released.write <= acquired.write
          /\ state.reading_count = acquired.read - released.read
          /\ state.is_writing <=> (acquired.write - released.write = 1)
          /\ acquired.write - released.write \in {0, 1})
    /\ [][/\ (state'.reading_count < state.reading_count) =>
                /\ state'.reading_count = state.reading_count - 1
                /\ state'.is_writing = state.is_writing
                /\ released'.read = released.read + 1
                /\ \E g \in Live("ref") : guards' = guards \ {g}
          /\ (state.is_writing /\ ~state'.is_writing) =>
                /\ state'.reading_count = state.reading_count
                /\ released'.write = released.write + 1
                /\ \E g \in Live("mut") : guards' = guards \ {g}
          /\ \A g \in guards : (g.id \notin GuardIds(guards')) =>
                IF g.kind = "ref"
                THEN state'.reading_count = state.reading_count - 1
                ELSE state.is_writing /\ ~state'.is_writing]_vars

\* Read guards and a write guard have been released and a moved guard is
\* still held.
C8_Witness ==
    /\ released.read >= 2
    /\ released.write >= 1
    /\ \E g \in guards : g.place = "vec"
    /\ last.op = "drop"

\* C9: a read through a guard observes the value of the last store made
\* through a write guard (the constructor's value if there was none); a
\* write-guard session without a store leaves it unchanged.
C9_RoundTrip ==
    /\ value = written.val
    /\ (last.op = "deref") => (last.seen = {written.val})

\* A read guard observes a store made by the second of two write guards,
\* both dropped by now.
C9_Witness ==
    /\ last.op = "deref"
    /\ last.kind = "ref"
    /\ written.by >= 2
    /\ written.by \notin GuardIds(guards)
    /\ released.write >= 2

\* C10: a move of a guard changes neither is_writing nor reading_count nor
\* the value; the moved guard keeps its claim and still reads the value.
C10_MoveKeepsClaim ==
    /\ [](/\ \A g \in guards : IF g.kind = "mut" THEN state.is_writing
                               ELSE state.reading_count >= 1
          /\ (last.op = "deref") => (last.seen = {value}))
    /\ [][\A g \in guards : \A h \in guards' :
             (h.id = g.id /\ h.place # g.place) =>
                /\ state' = state
                /\ value' = value
                /\ h.kind = g.kind
                /\ GuardIds(guards') = GuardIds(guards)]_vars

\* A write guard moved into a collection is read through, its claim held.
C10_Witness ==
    /\ last.op = "deref"
    /\ \E g \in Live("mut") : g.place = "vec" /\ g.id = last.id
    /\ state.is_writing
    /\ last.seen = {value}

\* C11: the protected value changes only in a store through the one live
\* write guard, in a state where is_writing is true: never while
\* reading_count > 0 and never while no guard is live.
C11_WriteOnlyThroughWriteGuard ==
    [][(value' # value) =>
          /\ state.is_writing
          /\ state.reading_count = 0
          /\ Cardinality(Live("mut")) = 1
          /\ Live("ref") = {}
          /\ last'.op = "deref_mut"
          /\ last'.id \in GuardIds(Live("mut"))
          /\ state' = state
          /\ guards' = guards]_vars

\* A store has just been made through a write guard obtained after a read
\* guard was released.
C11_Witness ==
    /\ last.op = "deref_mut"
    /\ value = written.val
    /\ written.by = last.id
    /\ released.read >= 1
    /\ state.is_writing

\* Idle, Reading(n > 0) or Writing; anything else is no state of the machine.
Phase(s) ==
    IF ~s.is_writing /\ s.reading_count = 0 THEN "Idle"
    ELSE IF ~s.is_writing /\ s.reading_count > 0 THEN "Reading"
    ELSE IF s.is_writing /\ s.reading_count = 0 THEN "Writing"
    ELSE "Invalid"

\* C16: the BorrowState starts Idle and every change of it is one of six
\* transitions: Idle -> Reading(1) and Reading(n) -> Reading(n+1) by a
\* successful read acquisition, Reading(n) -> Reading(n-1) and
\* Reading(1) -> Idle by a read-guard drop, Idle -> Writing by a successful
\* write acquisition, Writing -> Idle by a write-guard drop.
C16_SixTransitions ==
    /\ Phase(state) = "Idle"
    /\ [][(state' # state) =>
             \/ /\ Phase(state) \in {"Idle", "Reading"}
                /\ Phase(state') = "Reading"
                /\ state'.reading_count = state.reading_count + 1
                /\ last'.op \in {"try_borrow", "borrow"}
                /\ last'.res = "Some"
             \/ /\ Phase(state) = "Reading"
                /\ Phase(state') \in {"Reading", "Idle"}
                /\ state'.reading_count = state.reading_count - 1
                /\ last'.op = "drop"
                /\ last'.kind = "ref"
             \/ /\ Phase(state) = "Idle"
                /\ Phase(state') = "Writing"
                /\ last'.op \in {"try_borrow_mut", "borrow_mut"}
                /\ last'.res = "Some"
             \/ /\ Phase(state) = "Writing"
                /\ Phase(state') = "Idle"
                /\ last'.op = "drop"
                /\ last'.kind = "mut"]_vars

\* The machine is back at Idle by a write-guard drop, after read phases.
C16_Witness ==
    /\ Phase(state) = "Idle"
    /\ last.op = "drop"
    /\ last.kind = "mut"
    /\ released.read >= 2

\* C19: reading_count is the number of live read guards, is_writing is true
\* exactly when a write guard is live, and at most one write guard is live.
C19_BookkeepingMatchesGuards ==
    /\ state.reading_count = Cardinality(Live("ref"))
    /\ state.is_writing <=> (Live("mut") # {})
    /\ Cardinality(Live("mut")) <= 1

\* Three read guards are live, one of them passed to a function, after a
\* write guard was released.
C19_Witness ==
    /\ state.reading_count = 3
    /\ \E g \in Live("ref") : g.place = "callee"
    /\ released.write >= 1

\* C12: all read guards live at the same time read the identical value, the
\* cell's current value, whatever the order of acquisition and whatever
\* failed acquisitions or drops of other read guards came in between.
C12_ReadersAgree ==
    /\ \A v \in observed : v = value
    /\ (observed # {}) => (Live("ref") # {})
    /\ (last.op = "deref" /\ last.kind = "ref") => (last.seen = {value})

\* A read guard acquired after another one that is still live is read, after
\* a store through a write guard.
C12_Witness ==
    /\ last.op = "deref"
    /\ last.kind = "ref"
    /\ observed = {value}
    /\ \E g \in Live("ref") : g.id < last.id
    /\ written.by # 0

\* C14: no live guard has a view onto a value that no longer exists.
C14_ViewsAlwaysValid == (guards # {}) => cell_alive

\* C17: the BorrowState has as many holders as the cell (if alive) plus the
\* live guards, it is freed only when none is left, and a guard dropped
\* after its cell still performs its release on the live BorrowState.
C17_StateOutlivesHolders ==
    /\ [](/\ strong = (IF cell_alive THEN 1 ELSE 0) + Cardinality(guards)
          /\ (strong = 0) <=> (~cell_alive /\ guards = {})
          /\ (guards # {}) => (strong > 0))
    /\ [][(~cell_alive /\ last'.op = "drop") =>
             /\ strong >= 1
             /\ strong' = strong - 1
             /\ last'.res = "Unit"
             /\ \E g \in guards :
                   /\ guards' = guards \ {g}
                   /\ IF g.kind = "ref"
                      THEN state' = [state EXCEPT !.reading_count = @ - 1]
                      ELSE state' = [state EXCEPT !.is_writing = FALSE]
             /\ state'.reading_count >= 0]_vars

\* A read guard was dropped after its cell, another is still held.
C17_Witness ==
    /\ ~cell_alive
    /\ last.op = "drop"
    /\ last.kind = "ref"
    /\ Cardinality(guards) >= 1
    /\ strong = Cardinality(guards)

\* C13: under the fuzz target no acquisition and no guard drop panics,
\* reading_count never underflows, the BorrowState invariant holds
\* throughout, and the guards still held at the end of the input are
\* dropped, leaving the BorrowState idle, before the cell goes.
C13_FuzzNeverCrashes ==
    /\ ~(state.is_writing /\ state.reading_count > 0)
    /\ state.reading_count >= 0
    /\ last.res \notin {"Panic", "Dangling"}
    /\ (guards # {}) => cell_alive
    /\ strong = (IF cell_alive THEN 1 ELSE 0) + Cardinality(guards)
    /\ (fuzz.pc = "drop_immutable_borrows") => (Live("mut") = {} /\ ~state.is_writing)
    /\ (fuzz.pc = "drop_cell") => (guards = {} /\ state = new_state)

\* At the end of the input a held read guard has just been dropped, another
\* is still to go, and a write guard was released during the run.
C13_Witness ==
    /\ fuzz.pc = "drop_immutable_borrows"
    /\ last.op = "drop"
    /\ last.kind = "ref"
    /\ Live("ref") # {}
    /\ released.write >= 1

\* C20: in the fuzz target, after every processed byte, mutable_borrows has
\* at most one element, the two Vecs are never both non-empty (so a release
\* step drops at most one guard), reading_count is the length of
\* immutable_borrows, and the cell's value is the number of try_borrow_mut
\* calls that succeeded.
C20_FuzzBookkeeping ==
    /\ [](/\ Cardinality(Live("mut")) <= 1
          /\ ~(Live("ref") # {} /\ Live("mut") # {})
          /\ state.reading_count = Cardinality(Live("ref"))
          /\ (fuzz.pc = "loop") => (value = acquired.write)
          /\ \A g \in guards : g.place = "vec")
    /\ [][(last'.op = "pop") =>
             Cardinality(guards) - Cardinality(guards') <= 1]_vars

\* Two try_borrow_mut calls have succeeded and two read guards are held.
C20_Witness ==
    /\ fuzz.pc = "loop"
    /\ value = 2
    /\ Cardinality(Live("ref")) = 2
    /\ last.op = "try_borrow"
    /\ last.res = "Some"

\* C15 (as stated): in the nested benchmarks holding an outer write claim,
\* every inner attempt fails while the outer claim is live.
C15_InnerAttemptsFail ==
    (/\ bench.fn \in {"bench_borrow_mut_borrow", "bench_borrow_mut_borrow_mut"}
     /\ bench.pc \in {"inner", "panicked"})
       => (bench.outer_guard = "mut" /\ bench.inner_res \in {"None", "Panic"})

\* C15 (amended): in the nested benchmarks holding an outer write claim, the
\* inner attempts are made on the inner cell, the payload of the outer one,
\* which has a BorrowState of its own: every inner attempt succeeds while
\* the outer claim is live, and none panics.
C15_InnerAttemptsSucceed ==
    /\ bench.pc # "panicked"
    /\ (/\ bench.fn \in {"bench_borrow_mut_borrow", "bench_borrow_mut_borrow_mut"}
        /\ bench.pc = "inner")
          => /\ bench.outer_guard = "mut"
             /\ bench.heap[bench.outer_rc].is_writing
             /\ bench.inner_rc # bench.outer_rc
             /\ bench.inner_res = "Some"
             /\ bench.inner_guard # "none"

\* The last inner try_borrow_mut of the second run of the closure has been
\* made, under the outer write guard.
C15_Witness ==
    /\ bench.fn = "bench_borrow_mut_borrow_mut"
    /\ bench.pc = "inner"
    /\ bench.i = BenchIters - 1
    /\ bench.runs = 1
    /\ bench.inner_res = "Some"
    /\ bench.heap[bench.outer_rc].is_writing

\* C18: each cell has a BorrowState of its own: an acquisition on, or a
\* guard drop for, one cell leaves the other cell's is_writing and
\* reading_count unchanged, also for a cell reached through a guard of the
\* cell that holds it, and the outcome of an inner acquisition depends only
\* on the inner cell's state.
C18_CellsDoNotShareState ==
    /\ [](bench.inner_rc # bench.outer_rc)
    /\ [][/\ (bench.pc = "loop" /\ bench'.pc \in {"inner", "panicked"}) =>
                /\ bench'.heap[bench.outer_rc] = bench.heap[bench.outer_rc]
                /\ bench'.heap[bench.inner_rc] # bench.heap[bench.inner_rc]
                /\ (bench'.inner_res = "Some")
                      <=> BenchInnerCall(bench.fn, bench.heap[bench.inner_rc]).some
                /\ bench.heap[bench.inner_rc] = new_state
                /\ bench'.inner_res = "Some"
          /\ (bench.pc = "inner" /\ bench'.pc = "loop") =>
                /\ bench'.heap[bench.outer_rc] = bench.heap[bench.outer_rc]
                /\ bench'.heap[bench.inner_rc] = new_state
          /\ (bench.pc = "iter" /\ bench'.pc # "iter") =>
                /\ bench'.heap[bench.inner_rc] = bench.heap[bench.inner_rc]
                /\ bench'.heap[bench.outer_rc] # bench.heap[bench.outer_rc]
          /\ (bench.pc = "loop" /\ bench'.pc = "iter") =>
                /\ bench'.heap[bench.inner_rc] = bench.heap[bench.inner_rc]
                /\ bench'.heap[bench.outer_rc] = new_state]_vars

\* An inner write guard is held on the inner cell, reached through a read
\* guard of the outer cell.
C18_Witness ==
    /\ bench.fn = "bench_borrow_borrow_mut"
    /\ bench.pc = "inner"
    /\ bench.heap[bench.outer_rc] = [is_writing |-> FALSE, reading_count |-> 1]
    /\ bench.heap[bench.inner_rc] = [is_writing |-> TRUE, reading_count |-> 0]

====
